---- MODULE Spec2Model ----
(***************************************************************************)
(* Model of src/src/postMatcher.ts (post-matcher-ai).                      *)
(*                                                                         *)
(* The source file holds two complete programs: the original one, entered  *)
(* through runSimilarityAnalysis (lines 1-287), and its rewrite, entered   *)
(* through main (lines 291-451).  The variable `variant` says which of the *)
(* two a run executes: "v1" is runSimilarityAnalysis, "v2" is main.        *)
(*                                                                         *)
(* Numbers.  Float32 values are modelled in fixed point: the integer x     *)
(* stands for the real x / SCALE.  A dot product of two such vectors is an *)
(* integer in units of 1 / SCALE^2, and a similarity, which the code       *)
(* rounds to two decimals, is an integer number of hundredths.             *)
(***************************************************************************)
EXTENDS Integers, Sequences, FiniteSets, TLC

VARIABLES
    variant,      \* "v1" (runSimilarityAnalysis) or "v2" (main)
    files,        \* the content files glob() finds, in order
    pc,           \* position of the run
    documents,    \* Document[] built by loadAllDocuments / loadDocs
    calls,        \* number of invocations of the external extractor so far
    batch,        \* the texts handed to the extractor at its last invocation
    res,          \* what the extractor returned: [returned, dims, data]
    embeddings,   \* Float32Array[] returned by the embedding step
    topN,         \* the topN / n argument of the ranking functions
    idx,          \* the source index last ranked (0: none yet)
    ranked,       \* the list last returned by the ranking function
    results,      \* the slug -> list mapping: [keys, vals]
    saved,        \* what was written to the output file: [written, obj]
    exitCode      \* process.exitCode

vars == <<variant, files, pc, documents, calls, batch, res, embeddings,
          topN, idx, ranked, results, saved, exitCode>>

----------------------------------------------------------------------------
(* Bounds of the model *)

MaxFiles == 2
MaxDocs == 3
MaxK == 3
MaxTexts == 2
MaxDim == 2

(* Program constants *)

TOP_N_RESULTS == 5
TOP_N == 5

(* Fixed-point resolution standing for Float32 *)
SCALE == 1000

----------------------------------------------------------------------------
(* Generic helpers *)

Abs(x) == IF x < 0 THEN -x ELSE x

Min(a, b) == IF a < b THEN a ELSE b

Max(a, b) == IF a < b THEN b ELSE a

Range(s) == {s[i] : i \in 1..Len(s)}

RECURSIVE SumSeq(_)
SumSeq(s) == IF s = <<>> THEN 0 ELSE s[1] + SumSeq(Tail(s))

\* slice taking one element too many: an inclusive end
sliceInclusiveEnd(arr, start, end) ==
    LET lo == Min(Max(start, 0), Len(arr))
        hi == Min(Max(end + 1, 0), Len(arr))
    IN  IF hi <= lo THEN <<>> ELSE SubSeq(arr, lo + 1, hi)

\* Array.prototype.slice(start, end) for 0 <= start, 0-based, end exclusive:
\* both ends are clamped to the length, an empty range gives an empty array.
slice(arr, start, end) ==
    LET lo == Min(Max(start, 0), Len(arr))
        hi == Min(Max(end, 0), Len(arr))
    IN  IF hi <= lo THEN <<>> ELSE SubSeq(arr, lo + 1, hi)

\* Number.prototype.toFixed(2) followed by parseFloat / unary plus, on a value
\* given in units of 1 / SCALE^2: the nearest number of hundredths, a tie
\* going to the larger magnitude (toFixed rounds the absolute value and puts
\* the sign back).
toFixed2(x) ==
    LET unit == (SCALE * SCALE) \div 100
        mag == (2 * Abs(x) + unit) \div (2 * unit)
    IN  IF x < 0 THEN -mag ELSE mag

----------------------------------------------------------------------------
(* SimilarityRanker, first program *)

\* cosineSimilarity: the loop runs over vecA's indices.
RECURSIVE cosineSimilarityFrom(_, _, _)
cosineSimilarityFrom(vecA, vecB, i) ==
    IF i > Len(vecA) THEN 0
    ELSE vecA[i] * vecB[i] + cosineSimilarityFrom(vecA, vecB, i + 1)

\* cosineSimilarity with the loop ending one element early
\* (i < vecA.length - 1)
cosineSimilaritySkipsLast(vecA, vecB) ==
    cosineSimilarityFrom(slice(vecA, 0, Len(vecA) - 1), vecB, 1)

cosineSimilarity(vecA, vecB) == cosineSimilarityFrom(vecA, vecB, 1)

\* A SimilarityResult: the target's frontmatter (its slug here), the target's
\* path and the rounded score.
similarityEntry(targetDoc, score) ==
    [slug |-> targetDoc.slug, path |-> targetDoc.path, similarity |-> toFixed2(score)]

\* Array.prototype.sort with the comparator (a, b) => b.similarity - a.similarity.
\* The sort is stable (ECMAScript 2019, Node >= 11): an element is placed after
\* every element already placed that the comparator does not order after it.
\* The same insertion for a sort that is not stable: an element goes before
\* the elements it ties with.
RECURSIVE insertDescUnstable(_, _)
insertDescUnstable(sorted, e) ==
    IF sorted = <<>> THEN <<e>>
    ELSE IF Head(sorted).similarity - e.similarity <= 0
         THEN <<e>> \o sorted
         ELSE <<Head(sorted)>> \o insertDescUnstable(Tail(sorted), e)

\* The same insertion with the comparator's operands swapped:
\* (a, b) => a.similarity - b.similarity
RECURSIVE insertAsc(_, _)
insertAsc(sorted, e) ==
    IF sorted = <<>> THEN <<e>>
    ELSE IF e.similarity - Head(sorted).similarity < 0
         THEN <<e>> \o sorted
         ELSE <<Head(sorted)>> \o insertAsc(Tail(sorted), e)

RECURSIVE insertDesc(_, _)
insertDesc(sorted, e) ==
    IF sorted = <<>> THEN <<e>>
    ELSE IF Head(sorted).similarity - e.similarity < 0
         THEN <<e>> \o sorted
         ELSE <<Head(sorted)>> \o insertDesc(Tail(sorted), e)

RECURSIVE sortDescFrom(_, _, _)
sortDescFrom(arr, i, acc) ==
    IF i > Len(arr) THEN acc
    ELSE sortDescFrom(arr, i + 1, insertDesc(acc, arr[i]))

\* The candidates left in corpus order: the sort forgotten
sortDescNone(arr) == arr

sortDesc(arr) == sortDescFrom(arr, 1, <<>>)

\* The loop of calculateSingleDocSimilarities: every j other than the source.
RECURSIVE similaritiesFrom(_, _, _, _)
similaritiesFrom(sourceDocIndex, allDocuments, allEmbeddings, j) ==
    IF j > Len(allDocuments) THEN <<>>
    ELSE IF sourceDocIndex = j
         THEN similaritiesFrom(sourceDocIndex, allDocuments, allEmbeddings, j + 1)
         ELSE <<similarityEntry(allDocuments[j],
                    cosineSimilarity(allEmbeddings[sourceDocIndex], allEmbeddings[j]))>>
              \o similaritiesFrom(sourceDocIndex, allDocuments, allEmbeddings, j + 1)

calculateSingleDocSimilarities(sourceDocIndex, allDocuments, allEmbeddings, n) ==
    slice(sortDesc(similaritiesFrom(sourceDocIndex, allDocuments, allEmbeddings, 1)), 0, n)

----------------------------------------------------------------------------
(* SimilarityRanker, second program *)

\* dot: a.reduce((sum, ai, i) => sum + ai * b[i], 0)
RECURSIVE dotFrom(_, _, _, _)
dotFrom(a, b, i, sum) ==
    IF i > Len(a) THEN sum ELSE dotFrom(a, b, i + 1, sum + a[i] * b[i])

dot(a, b) == dotFrom(a, b, 1, 0)

\* docs.map((d, j) => j === idx ? null : {...}).filter(Boolean)
mapFilter(i, docs, embs) ==
    LET mapped == [j \in 1..Len(docs) |->
                      IF j = i THEN [null |-> TRUE]
                      ELSE [null |-> FALSE,
                            e |-> similarityEntry(docs[j], dot(embs[i], embs[j]))]]
    IN  SelectSeq(mapped, LAMBDA m : ~m.null)

topSimilar(i, docs, embs, n) ==
    LET kept == mapFilter(i, docs, embs)
    IN  slice(sortDesc([j \in 1..Len(kept) |-> kept[j].e]), 0, n)

----------------------------------------------------------------------------
(* CorpusAggregator *)

\* The result object: string keys in insertion order, with their values.
\* Assigning to a key already present replaces its value and keeps its place.
emptyObject == [keys |-> <<>>, vals |-> <<>>]

hasKey(obj, key) == \E p \in 1..Len(obj.keys) : obj.keys[p] = key

setKey(obj, key, v) ==
    IF hasKey(obj, key)
    THEN LET p == CHOOSE q \in 1..Len(obj.keys) : obj.keys[q] = key
         IN  [keys |-> obj.keys, vals |-> [obj.vals EXCEPT ![p] = v]]
    ELSE [keys |-> Append(obj.keys, key), vals |-> Append(obj.vals, v)]

getKey(obj, key) ==
    obj.vals[CHOOSE q \in 1..Len(obj.keys) : obj.keys[q] = key]

\* The assignment obj[key] = v of an array v to an object created by {}.
\* For the key "__proto__" the assignment reaches the accessor that
\* Object.prototype defines: it replaces the object's prototype by v and
\* adds no key.  Every other key becomes (or stays) a key of the object.
assignKey(obj, key, v) ==
    IF key = "__proto__" THEN obj ELSE setKey(obj, key, v)

\* computeAllSimilarities: documents.forEach((doc, i) => resultsBySlug[slug] = ...)
RECURSIVE computeAllFrom(_, _, _, _, _)
computeAllFrom(docs, embs, n, i, resultsBySlug) ==
    IF i > Len(docs) THEN resultsBySlug
    ELSE computeAllFrom(docs, embs, n, i + 1,
             assignKey(resultsBySlug, docs[i].slug,
                    calculateSingleDocSimilarities(i, docs, embs, n)))

computeAllSimilarities(docs, embs, n) == computeAllFrom(docs, embs, n, 1, emptyObject)

\* Object.fromEntries(entries): each [key, value] pair is defined in order as
\* a property of the new object itself ("__proto__" like any other key).
RECURSIVE fromEntries(_, _, _)
fromEntries(entries, i, obj) ==
    IF i > Len(entries) THEN obj
    ELSE fromEntries(entries, i + 1, setKey(obj, entries[i][1], entries[i][2]))

allSimilarities(docs, embs, n) ==
    fromEntries([i \in 1..Len(docs) |-> <<docs[i].slug, topSimilar(i, docs, embs, n)>>],
                1, emptyObject)

----------------------------------------------------------------------------
(* EmbeddingGateway *)

RECURSIVE Gcd(_, _)
Gcd(a, b) == IF b = 0 THEN a ELSE Gcd(b, a % b)

RECURSIVE GcdSeq(_)
GcdSeq(s) == IF s = <<>> THEN 0 ELSE Gcd(Abs(s[1]), GcdSeq(Tail(s)))

\* Math.hypot(...vec) squared
hypotSq(vec) == SumSeq([i \in 1..Len(vec) |-> vec[i] * vec[i]])

\* x / len in fixed point, for len = sqrt(lenSq) > 0 and |x| <= len: the
\* integer nearest to x * SCALE / len, found by exact comparison of squares.
divByLen(x, lenSq) ==
    LET m == 4 * x * x * SCALE * SCALE
        r == CHOOSE q \in 0..SCALE :
                 /\ (q = 0 \/ (2 * q - 1) * (2 * q - 1) * lenSq <= m)
                 /\ m < (2 * q + 1) * (2 * q + 1) * lenSq
    IN  IF x < 0 THEN -r ELSE r

\* normalize: a vector of norm 0 is returned as it is.  The quotient x / len
\* does not change when the vector is scaled, so it is computed on the vector
\* divided by the greatest common divisor of its elements, which keeps the
\* squares within 32-bit integers.
normalize(vec) ==
    IF hypotSq(vec) = 0 THEN vec
    ELSE LET g == GcdSeq(vec)
             reduced == [i \in 1..Len(vec) |-> vec[i] \div g]
         IN  [i \in 1..Len(vec) |-> divByLen(reduced[i], hypotSq(reduced))]

\* generateDocumentEmbeddings after the extractor returned embeddingsOutput
\* (first program): the two checks, then one slice per document.
generateDocumentEmbeddings(docs, embeddingsOutput) ==
    IF Len(embeddingsOutput.dims) < 2 THEN <<>>
    ELSE LET numDocsOutput == embeddingsOutput.dims[1]
             embeddingDim == embeddingsOutput.dims[2]
         IN  IF numDocsOutput # Len(docs) THEN <<>>
             ELSE [i \in 1..numDocsOutput |->
                      slice(embeddingsOutput.data, (i - 1) * embeddingDim, i * embeddingDim)]

\* embedDocs with the stride left out of the slice's start: vector i is
\* taken from element i on instead of element i * dim on.
embedDocsNoStride(docs, out) ==
    LET n == IF Len(out.dims) >= 1 THEN out.dims[1] ELSE 0
    IN  [i \in 1..n |->
            IF Len(out.dims) >= 2
            THEN normalize(slice(out.data, i - 1, (i - 1) + out.dims[2]))
            ELSE normalize(slice(out.data, 0, 0))]

\* embedDocs after the extractor returned out (second program).  A missing
\* n is undefined and Array.from({length: undefined}) is empty; a missing
\* dim makes both slice bounds NaN, which slice reads as 0.
embedDocs(docs, out) ==
    LET n == IF Len(out.dims) >= 1 THEN out.dims[1] ELSE 0
    IN  [i \in 1..n |->
            IF Len(out.dims) >= 2
            THEN normalize(slice(out.data, (i - 1) * out.dims[2], i * out.dims[2]))
            ELSE normalize(slice(out.data, 0, 0))]

----------------------------------------------------------------------------
(* The environment: content files and the external extractor *)

SeqsUpTo(S, n) == UNION {[1..m -> S] : m \in 0..n}

\* Frontmatter as gray-matter parses it, and whether readFileSync succeeds.
\* slugType "undefined" is a missing slug; a slug of another type than string
\* is kept as the text it has as a property key.
FileKinds ==
    { [slugType |-> "string", slug |-> "a", draft |-> "undefined", readable |-> TRUE],
      [slugType |-> "string", slug |-> "b", draft |-> "undefined", readable |-> TRUE],
      [slugType |-> "string", slug |-> "a", draft |-> "false", readable |-> TRUE],
      [slugType |-> "string", slug |-> "b", draft |-> "true", readable |-> TRUE],
      [slugType |-> "string", slug |-> "c", draft |-> "yes", readable |-> TRUE],
      [slugType |-> "string", slug |-> "", draft |-> "undefined", readable |-> TRUE],
      [slugType |-> "undefined", slug |-> "", draft |-> "undefined", readable |-> TRUE],
      [slugType |-> "number", slug |-> "42", draft |-> "undefined", readable |-> TRUE],
      [slugType |-> "string", slug |-> "a", draft |-> "undefined", readable |-> FALSE] }

\* JavaScript truthiness of the slug and of the draft field
truthySlug(fm) ==
    CASE fm.slugType = "string" -> fm.slug # ""
      [] fm.slugType = "number" -> fm.slug # "0"
      [] OTHER -> FALSE

truthyDraft(fm) == fm.draft \in {"true", "yes"}

\* Rows the extractor may put in its flat buffer
RowKinds == {"zero", "unit", "big", "neg"}

RowVal(kind, j) ==
    CASE kind = "zero" -> 0
      [] kind = "unit" -> (IF j = 1 THEN 600 ELSE IF j = 2 THEN 800 ELSE 0)
      [] kind = "big" -> (IF j = 1 THEN 1200 ELSE IF j = 2 THEN -1600 ELSE 0)
      [] OTHER -> (IF j = 1 THEN -1000 ELSE 0)

\* The row-major buffer of the rows of the given kinds, each of length d
Flat(kinds, d) ==
    [p \in 1..(Len(kinds) * d) |-> RowVal(kinds[((p - 1) \div d) + 1], ((p - 1) % d) + 1)]

\* What the extractor may return for n texts: a shape with fewer than two
\* dimensions, or [N, D] with N equal to n or off by one, over a full buffer
\* or (short) one that lacks its last element.
ExtractorOutputs(n, dimSet, kindSet, short) ==
    { [returned |-> TRUE, dims |-> <<>>, data |-> <<>>],
      [returned |-> TRUE, dims |-> <<n>>, data |-> Flat([i \in 1..n |-> "unit"], 1)] }
    \cup UNION { UNION { { [returned |-> TRUE, dims |-> <<m, d>>,
                            data |-> IF cut THEN slice(Flat(ks, d), 0, m * d - 1) ELSE Flat(ks, d)]
                          : cut \in short }
                        : ks \in [1..m -> kindSet] }
                 : m \in ({n - 1, n, n + 1} \cap Nat), d \in dimSet }

----------------------------------------------------------------------------
(* Loading: processDocumentFile / loadAllDocuments and processFile / loadDocs *)

null == [null |-> TRUE]

\* processDocumentFile (first program)
processDocumentFile(file, filePath) ==
    IF ~file.readable THEN null
    ELSE IF file.slugType # "string" \/ ~truthySlug(file) THEN null
    ELSE IF file.draft = "true" THEN null
    ELSE [null |-> FALSE, path |-> filePath, content |-> filePath, slug |-> file.slug]

\* processFile (second program)
processFile(file, filePath) ==
    IF ~file.readable THEN null
    ELSE IF ~truthySlug(file) \/ truthyDraft(file) THEN null
    ELSE [null |-> FALSE, path |-> filePath, content |-> filePath, slug |-> file.slug]

toDocument(d) == [path |-> d.path, content |-> d.content, slug |-> d.slug]

RECURSIVE loadAllDocumentsFrom(_, _, _)
loadAllDocumentsFrom(filePaths, i, docs) ==
    IF i > Len(filePaths) THEN docs
    ELSE LET doc == processDocumentFile(filePaths[i], i)
         IN  loadAllDocumentsFrom(filePaths, i + 1,
                 IF doc.null THEN docs ELSE Append(docs, toDocument(doc)))

loadAllDocuments(filePaths) == loadAllDocumentsFrom(filePaths, 1, <<>>)

RECURSIVE loadDocsFrom(_, _, _)
loadDocsFrom(paths, i, docs) ==
    IF i > Len(paths) THEN docs
    ELSE LET d == processFile(paths[i], i)
         IN  loadDocsFrom(paths, i + 1, IF d.null THEN docs ELSE Append(docs, toDocument(d)))

loadDocs(paths) == loadDocsFrom(paths, 1, <<>>)

----------------------------------------------------------------------------
(* Function calls as actions.  A call that throws leaves pc = "threw". *)

\* res before the extractor has returned anything
noOutput == [returned |-> FALSE, dims |-> <<>>, data |-> <<>>]

contents(docs) == [i \in 1..Len(docs) |-> docs[i].content]

\* generateDocumentEmbeddings calling the extractor once for each document
\* instead of once for the batch
CallExtractorPerDocument(dimSet, kindSet, short) ==
    /\ pc = "embed"
    /\ variant = "v1"
    /\ IF Len(documents) = 0
       THEN /\ embeddings' = <<>>
            /\ pc' = "embedded"
            /\ UNCHANGED <<calls, batch, res>>
       ELSE /\ calls' = calls + Len(documents)
            /\ batch' = <<documents[Len(documents)].content>>
            /\ \/ /\ pc' = "threw"
                  /\ UNCHANGED <<res, embeddings>>
               \/ \E out \in ExtractorOutputs(Len(documents), dimSet, kindSet, short) :
                     /\ res' = out
                     /\ embeddings' = generateDocumentEmbeddings(documents, out)
                     /\ pc' = "embedded"
    /\ UNCHANGED <<variant, files, documents, topN, idx, ranked, results, saved, exitCode>>

\* await generateDocumentEmbeddings(documents, featureExtractor)
CallGenerateDocumentEmbeddings(dimSet, kindSet, short) ==
    /\ pc = "embed"
    /\ variant = "v1"
    /\ IF Len(documents) = 0
       THEN /\ embeddings' = <<>>
            /\ pc' = "embedded"
            /\ UNCHANGED <<calls, batch, res>>
       ELSE /\ calls' = calls + 1
            /\ batch' = contents(documents)
            /\ \/ /\ pc' = "threw"
                  /\ UNCHANGED <<res, embeddings>>
               \/ \E out \in ExtractorOutputs(Len(documents), dimSet, kindSet, short) :
                     /\ res' = out
                     /\ embeddings' = generateDocumentEmbeddings(documents, out)
                     /\ pc' = "embedded"
    /\ UNCHANGED <<variant, files, documents, topN, idx, ranked, results, saved, exitCode>>

\* await embedDocs(docs, extractor)
CallEmbedDocs(dimSet, kindSet, short) ==
    /\ pc = "embed"
    /\ variant = "v2"
    /\ IF Len(documents) = 0
       THEN /\ embeddings' = <<>>
            /\ pc' = "embedded"
            /\ UNCHANGED <<calls, batch, res>>
       ELSE /\ calls' = calls + 1
            /\ batch' = contents(documents)
            /\ \/ /\ pc' = "threw"
                  /\ UNCHANGED <<res, embeddings>>
               \/ \E out \in ExtractorOutputs(Len(documents), dimSet, kindSet, short) :
                     /\ res' = out
                     /\ embeddings' = embedDocs(documents, out)
                     /\ pc' = "embedded"
    /\ UNCHANGED <<variant, files, documents, topN, idx, ranked, results, saved, exitCode>>

\* calculateSingleDocSimilarities(i, documents, embeddings, topN)
CallCalculateSingleDocSimilarities(i) ==
    /\ pc = "rank"
    /\ variant = "v1"
    /\ i \in 1..Len(documents)
    /\ idx' = i
    /\ ranked' = calculateSingleDocSimilarities(i, documents, embeddings, topN)
    /\ pc' = "ranked"
    /\ UNCHANGED <<variant, files, documents, calls, batch, res, embeddings, topN,
                   results, saved, exitCode>>

\* topSimilar(i, docs, embs, n)
CallTopSimilar(i) ==
    /\ pc = "rank"
    /\ variant = "v2"
    /\ i \in 1..Len(documents)
    /\ idx' = i
    /\ ranked' = topSimilar(i, documents, embeddings, topN)
    /\ pc' = "ranked"
    /\ UNCHANGED <<variant, files, documents, calls, batch, res, embeddings, topN,
                   results, saved, exitCode>>

\* computeAllSimilarities(documents, embeddings, TOP_N_RESULTS).  The first
\* program reaches it only with one embedding per document.
CallComputeAllSimilarities ==
    /\ pc = "rank"
    /\ variant = "v1"
    /\ results' = computeAllSimilarities(documents, embeddings, topN)
    /\ pc' = "save"
    /\ UNCHANGED <<variant, files, documents, calls, batch, res, embeddings, topN,
                   idx, ranked, saved, exitCode>>

\* allSimilarities(docs, embs, TOP_N).  With fewer embeddings than documents
\* some embs[idx] or embs[j] is undefined and dot throws a TypeError.
CallAllSimilarities ==
    /\ pc = "rank"
    /\ variant = "v2"
    /\ IF Len(embeddings) < Len(documents)
       THEN /\ pc' = "threw"
            /\ UNCHANGED results
       ELSE /\ results' = allSimilarities(documents, embeddings, topN)
            /\ pc' = "save"
    /\ UNCHANGED <<variant, files, documents, calls, batch, res, embeddings, topN,
                   idx, ranked, saved, exitCode>>

----------------------------------------------------------------------------
(* The steps of runSimilarityAnalysis (first program) *)

others == <<variant, files, documents, calls, batch, res, embeddings, topN, idx,
            ranked, results, saved, exitCode>>

\* featureExtractor = await initializeFeatureExtractor(): loading the model may fail
RunInitializeFeatureExtractor ==
    /\ pc = "start" /\ variant = "v1"
    /\ pc' \in {"glob", "threw"}
    /\ UNCHANGED others

RunGlob ==
    /\ pc = "glob" /\ variant = "v1"
    /\ pc' = IF Len(files) = 0 THEN "done" ELSE "load"
    /\ UNCHANGED others

RunLoadAllDocuments ==
    /\ pc = "load" /\ variant = "v1"
    /\ documents' = loadAllDocuments(files)
    /\ pc' = IF Len(documents') = 0 THEN "done" ELSE "embed"
    /\ UNCHANGED <<variant, files, calls, batch, res, embeddings, topN, idx, ranked,
                   results, saved, exitCode>>

RunGenerateDocumentEmbeddings == CallGenerateDocumentEmbeddings({MaxDim}, {"unit", "neg"}, {FALSE})

\* if (embeddings.length === 0 ...) return
RunCheckEmbeddings ==
    /\ pc = "embedded" /\ variant = "v1"
    /\ pc' = IF Len(embeddings) = 0 THEN "done" ELSE "rank"
    /\ UNCHANGED others

RunComputeAllSimilarities == CallComputeAllSimilarities

\* await saveResultsToFile(similarityResults, ...): the write may fail, and
\* the error is thrown again
RunSaveResultsToFile ==
    /\ pc = "save" /\ variant = "v1"
    /\ \/ /\ saved' = [written |-> TRUE, obj |-> results]
          /\ pc' = "done"
       \/ /\ pc' = "threw"
          /\ UNCHANGED saved
    /\ UNCHANGED <<variant, files, documents, calls, batch, res, embeddings, topN, idx,
                   ranked, results, exitCode>>

\* catch (error) { ...; process.exitCode = 1 }
RunCatch ==
    /\ pc = "threw" /\ variant = "v1"
    /\ exitCode' = 1
    /\ pc' = "done"
    /\ UNCHANGED <<variant, files, documents, calls, batch, res, embeddings, topN, idx,
                   ranked, results, saved>>

----------------------------------------------------------------------------
(* The steps of main (second program) *)

MainPipeline ==
    /\ pc = "start" /\ variant = "v2"
    /\ pc' \in {"glob", "threw"}
    /\ UNCHANGED others

MainGlob ==
    /\ pc = "glob" /\ variant = "v2"
    /\ pc' = IF Len(files) = 0 THEN "done" ELSE "load"
    /\ UNCHANGED others

MainLoadDocs ==
    /\ pc = "load" /\ variant = "v2"
    /\ documents' = loadDocs(files)
    /\ pc' = IF Len(documents') = 0 THEN "done" ELSE "embed"
    /\ UNCHANGED <<variant, files, calls, batch, res, embeddings, topN, idx, ranked,
                   results, saved, exitCode>>

MainEmbedDocs == CallEmbedDocs({MaxDim}, {"unit", "neg"}, {FALSE})

\* if (!embs.length) return
MainCheckEmbs ==
    /\ pc = "embedded" /\ variant = "v2"
    /\ pc' = IF Len(embeddings) = 0 THEN "done" ELSE "rank"
    /\ UNCHANGED others

MainAllSimilarities == CallAllSimilarities

MainSaveJson ==
    /\ pc = "save" /\ variant = "v2"
    /\ \/ /\ saved' = [written |-> TRUE, obj |-> results]
          /\ pc' = "done"
       \/ /\ pc' = "threw"
          /\ UNCHANGED saved
    /\ UNCHANGED <<variant, files, documents, calls, batch, res, embeddings, topN, idx,
                   ranked, results, exitCode>>

MainCatch ==
    /\ pc = "threw" /\ variant = "v2"
    /\ exitCode' = 1
    /\ pc' = "done"
    /\ UNCHANGED <<variant, files, documents, calls, batch, res, embeddings, topN, idx,
                   ranked, results, saved>>

----------------------------------------------------------------------------
(* Specification of a whole run of either program *)

Init ==
    /\ variant \in {"v1", "v2"}
    /\ files \in SeqsUpTo(FileKinds, MaxFiles)
    /\ pc = "start"
    /\ documents = <<>>
    /\ calls = 0
    /\ batch = <<>>
    /\ res = noOutput
    /\ embeddings = <<>>
    /\ topN = (IF variant = "v1" THEN TOP_N_RESULTS ELSE TOP_N)
    /\ idx = 0
    /\ ranked = <<>>
    /\ results = emptyObject
    /\ saved = [written |-> FALSE, obj |-> emptyObject]
    /\ exitCode = 0

Next ==
    \/ RunInitializeFeatureExtractor
    \/ RunGlob
    \/ RunLoadAllDocuments
    \/ RunGenerateDocumentEmbeddings
    \/ RunCheckEmbeddings
    \/ RunComputeAllSimilarities
    \/ RunSaveResultsToFile
    \/ RunCatch
    \/ MainPipeline
    \/ MainGlob
    \/ MainLoadDocs
    \/ MainEmbedDocs
    \/ MainCheckEmbs
    \/ MainAllSimilarities
    \/ MainSaveJson
    \/ MainCatch

Spec == Init /\ [][Next]_vars

----------------------------------------------------------------------------
(* Specification of the ranking functions on their own: any aligned corpus *)
(* of unit (or zero) vectors, any k                                        *)

DocNames == <<"A", "B", "C", "D", "E", "F">>

corpus(n) == [j \in 1..n |-> [path |-> j, content |-> j, slug |-> DocNames[j]]]

UnitVecs == { <<1000, 0>>, <<800, 600>>, <<-1000, 0>>, <<803, 596>>, <<707, 707>>, <<0, 0>> }

\* corpus(n) with the slug of its last document replaced
renamedLast(n, s) == [j \in 1..n |-> IF j = n THEN [corpus(n)[j] EXCEPT !.slug = s]
                                     ELSE corpus(n)[j]]

\* The corpora of n documents: slugs all different, the last slug equal to
\* the first, the last slug "__proto__"
Corpora(n) == {corpus(n)} \cup {renamedLast(n, s) : s \in {"A", "__proto__"}}

RankInit ==
    /\ variant \in {"v1", "v2"}
    /\ files = <<>>
    /\ pc = "rank"
    /\ \E n \in 0..MaxDocs :
          /\ documents \in Corpora(n)
          /\ embeddings \in [1..n -> UnitVecs]
    /\ calls = 0
    /\ batch = <<>>
    /\ res = noOutput
    /\ topN \in 0..MaxK
    /\ idx = 0
    /\ ranked = <<>>
    /\ results = emptyObject
    /\ saved = [written |-> FALSE, obj |-> emptyObject]
    /\ exitCode = 0

RankNext ==
    \/ \E i \in 1..MaxDocs : CallCalculateSingleDocSimilarities(i)
    \/ \E i \in 1..MaxDocs : CallTopSimilar(i)
    \/ CallComputeAllSimilarities
    \/ CallAllSimilarities

RankSpec == RankInit /\ [][RankNext]_vars

----------------------------------------------------------------------------
(* Specification of the embedding functions on their own: any number of    *)
(* texts, any extractor output                                             *)

EmbedInit ==
    /\ variant \in {"v1", "v2"}
    /\ files = <<>>
    /\ pc = "embed"
    /\ \E n \in 0..MaxTexts : documents = corpus(n)
    /\ calls = 0
    /\ batch = <<>>
    /\ res = noOutput
    /\ embeddings = <<>>
    /\ topN = 0
    /\ idx = 0
    /\ ranked = <<>>
    /\ results = emptyObject
    /\ saved = [written |-> FALSE, obj |-> emptyObject]
    /\ exitCode = 0

EmbedNext ==
    \/ CallGenerateDocumentEmbeddings(0..MaxDim, RowKinds, BOOLEAN)
    \/ CallEmbedDocs(0..MaxDim, RowKinds, BOOLEAN)

EmbedSpec == EmbedInit /\ [][EmbedNext]_vars

----------------------------------------------------------------------------
(* Properties of the ranking functions, under RankSpec *)

\* C1: the list returned by topSimilar(i, documents, vectors, k) holds no
\* entry made from document i itself, has at most min(k, N - 1) entries, and
\* its similarities never increase from one entry to the next.
C1_TopSimilarShape ==
    pc = "ranked" =>
        /\ \A p \in 1..Len(ranked) : ranked[p].path # documents[idx].path
        /\ Len(ranked) <= Min(topN, Len(documents) - 1)
        /\ \A p \in 1..(Len(ranked) - 1) : ranked[p].similarity >= ranked[p + 1].similarity

\* A call with three documents and k = 1 < N - 1, where the cut matters, and
\* the two candidates score differently
C1_Witness ==
    /\ pc = "ranked"
    /\ Len(documents) = 3
    /\ topN = 1
    /\ Len(ranked) = 1
    /\ \E j \in 1..3 :
          /\ j # idx
          /\ toFixed2(dot(embeddings[idx], embeddings[j])) < ranked[1].similarity

\* C2: two entries of the returned list with the same rounded similarity
\* stand in the order of their documents in the corpus, lower index first.
C2_TiesKeepCorpusOrder ==
    pc = "ranked" =>
        \A p, q \in 1..Len(ranked) :
            (p < q /\ ranked[p].similarity = ranked[q].similarity)
                => ranked[p].path < ranked[q].path

\* A returned list with a tie that only the rounding makes: the two targets'
\* dot products differ, their rounded scores are equal
C2_Witness ==
    /\ pc = "ranked"
    /\ \E p, q \in 1..Len(ranked) :
          /\ p < q
          /\ ranked[p].similarity = ranked[q].similarity
          /\ dot(embeddings[idx], embeddings[ranked[p].path])
                 # dot(embeddings[idx], embeddings[ranked[q].path])

\* The corpus of the end-to-end example: A, B, C with vectors [1,0],
\* [0.8,0.6], [-1,0] and k = 2
ExampleCorpus ==
    /\ documents = corpus(3)
    /\ embeddings = << <<1000, 0>>, <<800, 600>>, <<-1000, 0>> >>
    /\ topN = 2

ExampleResultAsClaimed ==
    [keys |-> <<"A", "B", "C">>,
     vals |-> << << [slug |-> "B", path |-> 2, similarity |-> 80],
                    [slug |-> "C", path |-> 3, similarity |-> -100] >>,
                 << [slug |-> "A", path |-> 1, similarity |-> 80],
                    [slug |-> "C", path |-> 3, similarity |-> -80] >>,
                 << [slug |-> "A", path |-> 1, similarity |-> -100],
                    [slug |-> "B", path |-> 2, similarity |-> -80] >> >>]

ExampleResult ==
    [keys |-> <<"A", "B", "C">>,
     vals |-> << << [slug |-> "B", path |-> 2, similarity |-> 80],
                    [slug |-> "C", path |-> 3, similarity |-> -100] >>,
                 << [slug |-> "A", path |-> 1, similarity |-> 80],
                    [slug |-> "C", path |-> 3, similarity |-> -80] >>,
                 << [slug |-> "B", path |-> 2, similarity |-> -80],
                    [slug |-> "A", path |-> 1, similarity |-> -100] >> >>]

\* C10 as stated: for the example corpus the mapping is A -> [B 0.80,
\* C -1.00], B -> [A 0.80, C -0.80], C -> [A -1.00, B -0.80].
C10_AsClaimed ==
    (ExampleCorpus /\ pc = "save") => results = ExampleResultAsClaimed

\* C10 as amended: for the example corpus the mapping is A -> [B 0.80,
\* C -1.00], B -> [A 0.80, C -0.80], C -> [B -0.80, A -1.00]: C's list is in
\* descending order like the others, B (-0.80) before A (-1.00).
C10_EndToEndExample ==
    (ExampleCorpus /\ pc = "save") => results = ExampleResult

C10_Witness ==
    /\ ExampleCorpus
    /\ pc = "save"
    /\ Len(results.keys) = 3

----------------------------------------------------------------------------
(* Properties of the embedding functions, under EmbedSpec *)

\* The extractor returned dims [N, D] over a buffer of N * D elements, N
\* being the number of texts
AlignedOutput ==
    /\ pc = "embedded"
    /\ res.returned
    /\ Len(res.dims) = 2
    /\ res.dims[1] = Len(documents)
    /\ Len(res.data) = res.dims[1] * res.dims[2]

\* Elements (i-1)*D+1 .. i*D of the buffer (0-based: i*D .. (i+1)*D-1 for
\* the i-th vector counted from 0)
rawVector(i) == [j \in 1..res.dims[2] |-> res.data[(i - 1) * res.dims[2] + j]]

\* C4: when the extractor's first dimension differs from the number of texts
\* submitted, embedAll fails: it returns no vectors and the caller gets an
\* error, not a normal result.
C4_CountMismatchFails ==
    (res.returned /\ Len(res.dims) >= 2 /\ res.dims[1] # Len(documents))
        => (pc = "threw" /\ embeddings = <<>>)

\* C8: for dims [N, D] over a buffer of N * D elements with N the number of
\* texts, embedAll returns N vectors of length D, and vector i is, before
\* normalization, the buffer's elements i*D .. (i+1)*D-1 in order.
C8_StrideSlicing ==
    AlignedOutput =>
        /\ Len(embeddings) = res.dims[1]
        /\ \A i \in 1..Len(embeddings) :
              /\ Len(embeddings[i]) = res.dims[2]
              /\ embeddings[i] = (IF variant = "v1" THEN rawVector(i)
                                  ELSE normalize(rawVector(i)))

\* Two texts, two vectors of length 2 that differ, by either program
C8_Witness ==
    /\ AlignedOutput
    /\ res.dims = <<2, 2>>
    /\ Len(embeddings) = 2
    /\ embeddings[1] # embeddings[2]
    /\ variant = "v2"

\* L2 norm 1 and same direction, within the resolution of the fixed point:
\* each element is off by at most half a unit.
isUnit(v) == Abs(hypotSq(v) - SCALE * SCALE) <= 2 * SCALE * Len(v)

sameDirection(v, r) ==
    /\ Len(v) = Len(r)
    /\ dot(v, r) > 0
    /\ \A j, k \in 1..Len(r) :
          Abs(v[j] * r[k] - v[k] * r[j]) <= Abs(r[j]) + Abs(r[k])

\* C9: every vector embedAll returns is normalized by the gateway itself,
\* whatever the extractor did: a raw vector of nonzero norm comes back with
\* norm 1 and the same direction, a raw zero vector comes back unchanged.
C9_GatewayNormalizes ==
    AlignedOutput =>
        \A i \in 1..Len(embeddings) :
            IF hypotSq(rawVector(i)) = 0
            THEN embeddings[i] = rawVector(i)
            ELSE isUnit(embeddings[i]) /\ sameDirection(embeddings[i], rawVector(i))

----------------------------------------------------------------------------
(* Properties of a whole run, under Spec *)

admissible(file) ==
    file.slugType = "string" /\ file.slug # "" /\ file.draft # "true"

\* a missing or empty slug, or draft == true
excluded(file) ==
    file.slugType = "undefined" \/ file.slug = "" \/ file.draft = "true"

entryPaths(obj) ==
    UNION { {obj.vals[p][q].path : q \in 1..Len(obj.vals[p])} : p \in 1..Len(obj.vals) }

\* C3: a document is admitted only if its slug is a non-empty string and its
\* draft field is not true; a document with a missing or empty slug or with
\* draft == true is in no batch handed to the extractor, is no key of the
\* output and no entry of an output list.
C3_OnlyValidDocumentsAdmitted ==
    /\ \A i \in 1..Len(documents) : admissible(files[documents[i].path])
    /\ Range(results.keys) \subseteq {documents[i].slug : i \in 1..Len(documents)}
    /\ \A p \in 1..Len(files) :
          excluded(files[p]) =>
              /\ p \notin Range(batch)
              /\ p \notin entryPaths(results)
              /\ p \notin entryPaths(saved.obj)

duplicateSlug(docs) ==
    \E i, j \in 1..Len(docs) : i < j /\ docs[i].slug = docs[j].slug

shapeError == res.returned /\ Len(res.dims) < 2

countMismatch == res.returned /\ Len(res.dims) >= 2 /\ res.dims[1] # Len(documents)

modelCallFailed == calls > 0 /\ ~res.returned /\ pc \in {"threw", "done"}

\* C5: a run with a structural error (fewer than two dimensions, a count
\* mismatch, a duplicate slug) or a failed extractor call never produces or
\* saves a mapping, and ends as an error.
C5_FatalErrorsAbort ==
    (shapeError \/ countMismatch \/ duplicateSlug(documents) \/ modelCallFailed) =>
        /\ results = emptyObject
        /\ ~saved.written
        /\ pc = "done" => exitCode = 1

\* C6: with two documents of the same slug buildCorpusResult fails and
\* returns no mapping; the later document's list never replaces the
\* earlier one's.
C6_DuplicateSlugFails ==
    duplicateSlug(documents) => (results = emptyObject /\ pc # "save")

\* C7: over a run the extractor is invoked at most once; once the run is
\* over it has been invoked exactly once if the active corpus is not empty,
\* with the texts of all active documents in corpus order as one batch, and
\* never if the corpus is empty, in which case there is no output key.
C7_OneBatchedCall ==
    /\ calls <= 1
    /\ calls = 1 =>
          /\ batch = contents(documents)
          /\ \A i, j \in 1..Len(batch) : i < j => batch[i] < batch[j]
    /\ pc = "done" =>
          /\ calls = (IF Len(documents) > 0 THEN 1 ELSE 0)
          /\ Len(documents) = 0 => (results = emptyObject /\ ~saved.written)

\* A finished run that left a file out, embedded the rest as one batch and
\* saved a mapping
C7_Witness ==
    /\ pc = "done"
    /\ calls = 1
    /\ Len(files) > Len(batch)
    /\ Len(batch) >= 1
    /\ saved.written

----------------------------------------------------------------------------
(* Properties of the aggregation and of the similarity, under RankSpec *)

\* The list the program's ranking function returns for source index i
rankingOf(i) ==
    IF variant = "v1" THEN calculateSingleDocSimilarities(i, documents, embeddings, topN)
    ELSE topSimilar(i, documents, embeddings, topN)

\* C11: for a corpus with pairwise distinct slugs the mapping has exactly one
\* key per document, its keys are the documents' slugs, inserted in corpus
\* order, and the value under documents[i].slug is topSimilar(i, documents,
\* vectors, k); a corpus of one document gives one key with an empty list.
C11_OneKeyPerDocument ==
    (pc = "save" /\ ~duplicateSlug(documents)) =>
        /\ Len(results.keys) = Len(documents)
        /\ Range(results.keys) = {documents[i].slug : i \in 1..Len(documents)}
        /\ \A i \in 1..Len(documents) :
              /\ results.keys[i] = documents[i].slug
              /\ results.vals[i] = rankingOf(i)
        /\ Len(documents) = 1 => results.vals = << <<>> >>

\* similarity(a, b) of the program: cosineSimilarity or dot
similarityOf(a, b) == IF variant = "v1" THEN cosineSimilarity(a, b) ELSE dot(a, b)

\* Whenever j is in i's list and i in j's, both entries carry the same value
mutualEntriesAgree ==
    (pc = "save" /\ ~duplicateSlug(documents)) =>
        \A i, j \in 1..Len(documents) :
            (i # j /\ hasKey(results, documents[i].slug) /\ hasKey(results, documents[j].slug)) =>
                LET listI == getKey(results, documents[i].slug)
                    listJ == getKey(results, documents[j].slug)
                IN  \A p \in 1..Len(listI), q \in 1..Len(listJ) :
                        (listI[p].path = j /\ listJ[q].path = i)
                            => listI[p].similarity = listJ[q].similarity

symmetric ==
    \A i, j \in 1..Len(embeddings) :
        similarityOf(embeddings[i], embeddings[j]) = similarityOf(embeddings[j], embeddings[i])

\* C12 as stated: for unit vectors a, b of equal length similarity(a, b) =
\* similarity(b, a) and similarity(a, a) equals 1; so entries of i in j's list
\* and of j in i's carry the same value.
C12_AsClaimed ==
    /\ symmetric
    /\ \A i \in 1..Len(embeddings) :
          isUnit(embeddings[i]) => similarityOf(embeddings[i], embeddings[i]) = SCALE * SCALE
    /\ mutualEntriesAgree

\* C12 as amended: similarity(a, b) = similarity(b, a); similarity(a, a) is 1
\* only up to the rounding of the vector's elements, and its value rounded to
\* two decimals is exactly 1.00; entries of i in j's list and of j in i's
\* carry the same value.
C12_SymmetricSimilarity ==
    /\ symmetric
    /\ \A i \in 1..Len(embeddings) :
          isUnit(embeddings[i]) => toFixed2(similarityOf(embeddings[i], embeddings[i])) = 100
    /\ mutualEntriesAgree

\* A mapping in which two documents list each other with a score that is
\* neither 0 nor 1, over a unit vector whose own dot product is not exactly 1
C12_Witness ==
    /\ pc = "save"
    /\ ~duplicateSlug(documents)
    /\ \E i \in 1..Len(embeddings) :
          /\ isUnit(embeddings[i])
          /\ similarityOf(embeddings[i], embeddings[i]) # SCALE * SCALE
    /\ \E i, j \in 1..Len(documents) :
          /\ i # j
          /\ hasKey(results, documents[i].slug)
          /\ hasKey(results, documents[j].slug)
          /\ \E p \in 1..Len(getKey(results, documents[i].slug)),
                q \in 1..Len(getKey(results, documents[j].slug)) :
                /\ getKey(results, documents[i].slug)[p].path = j
                /\ getKey(results, documents[j].slug)[q].path = i
                /\ getKey(results, documents[i].slug)[p].similarity \notin {0, 100}

\* The rounded similarity of document j to the source last ranked
roundedScore(j) == toFixed2(similarityOf(embeddings[idx], embeddings[j]))

rankedPaths == {ranked[p].path : p \in 1..Len(ranked)}

\* C13: topSimilar returns exactly min(k, N - 1) entries, each for a distinct
\* document other than the source, and they are the true top k: no document
\* left out has a rounded similarity strictly greater than that of a
\* document in the list.
C13_TrueTopK ==
    pc = "ranked" =>
        /\ Len(ranked) = Min(topN, Len(documents) - 1)
        /\ \A p \in 1..Len(ranked) :
              /\ ranked[p].path \in (1..Len(documents)) \ {idx}
              /\ ranked[p].similarity = roundedScore(ranked[p].path)
              /\ ranked[p].slug = documents[ranked[p].path].slug
        /\ \A p, q \in 1..Len(ranked) : p # q => ranked[p].path # ranked[q].path
        /\ \A j \in (1..Len(documents)) \ ({idx} \cup rankedPaths) :
              \A p \in 1..Len(ranked) : roundedScore(j) <= ranked[p].similarity

\* A call that had to choose: three documents, k = 1, and the document left
\* out comes before the one returned in the corpus and scores strictly less
C13_Witness ==
    /\ pc = "ranked"
    /\ Len(documents) = 3
    /\ topN = 1
    /\ Len(ranked) = 1
    /\ \E j \in (1..3) \ {idx} :
          /\ j < ranked[1].path
          /\ roundedScore(j) < ranked[1].similarity

====
